---- MODULE Spec2Model ----
(***************************************************************************)
(* Model of src/playlist/playlistdelegates.cpp (Clementine): the playlist  *)
(* view's item delegates.  Every delegate method is a call that reads the  *)
(* delegate's members and the painter, and leaves a result; the model      *)
(* keeps the members, the painter's opacity, the header's first section    *)
(* and the record of the last call.                                        *)
(***************************************************************************)
EXTENDS Integers, Sequences, FiniteSets, TLC

(* ---------------------------- bounds ----------------------------------- *)
MaxInt == 3            \* numeric cell values range over -MaxInt..MaxInt
MaxStrLen == 2         \* longest string cell value
MaxQueuePos == 11      \* largest queue position painted
MaxHeight == 21        \* largest height the base size hint returns
MaxWidth == 2          \* largest width the base size hint returns
MaxTextWidth == 3      \* largest font-metrics width of the "stop  " label
MaxLibrary == 2        \* longest artist / album list of the backend

(* ------------------------ program constants ---------------------------- *)
kQueueBoxBorder == 1
kQueueBoxLength == 30
kQueueOpacitySteps == 10
\* opacities are kept in hundredths: 0.4 is 40, 1.0 is 100
OpacityScale == 100
kQueueOpacityLowerBound == 40
kMinHeight == 19
kCurrentIndent == 20

(* ------------------------------ QString -------------------------------- *)
\* A QString is null, or a (possibly empty) sequence of characters.
NullString == [null |-> TRUE, chars |-> <<>>]
Str(cs) == [null |-> FALSE, chars |-> cs]
isNull(t) == t.null
isEmpty(t) == Len(t.chars) = 0
\* operator+ / operator+= on QString: the result is null only if both are
Concat(a, b) == [null |-> a.null /\ b.null, chars |-> a.chars \o b.chars]
\* tr("..."): the translated label, kept as one token
tr(label) == Str(<<label>>)

DigitChars == <<"0", "1", "2", "3", "4", "5", "6", "7", "8", "9">>

RECURSIVE NatDigits(_)
NatDigits(n) ==
  IF n < 10 THEN <<DigitChars[n + 1]>>
  ELSE NatDigits(n \div 10) \o <<DigitChars[(n % 10) + 1]>>

\* QString::number(int)
NumberInt(n) == IF n < 0 THEN Str(<<"-">> \o NatDigits(-n)) ELSE Str(NatDigits(n))

\* QString::number(double), format 'g': doubles are kept in halves (h = 2*v),
\* trailing zeros are dropped, so 1.0 prints "1" and 1.5 prints "1.5"
NumberDouble(h) ==
  LET a == IF h < 0 THEN -h ELSE h
      body == NatDigits(a \div 2) \o (IF a % 2 = 1 THEN <<".", "5">> ELSE <<>>)
  IN  IF h < 0 THEN Str(<<"-">> \o body) ELSE Str(body)

(* ------------------------------ QVariant ------------------------------- *)
\* n is the number of an Int, or twice the number of a Float / Double;
\* s is the text of a String
Variant(t, n, s) == [type |-> t, n |-> n, s |-> s]

StrAlphabet == {"0", "7", "-", "x"}
StrSeqs == UNION {[1..k -> StrAlphabet] : k \in 0..MaxStrLen}

Variants ==
  {Variant("Invalid", 0, NullString)}
  \cup {Variant("Int", n, NullString) : n \in (-MaxInt)..MaxInt}
  \cup {Variant(t, h, NullString) : t \in {"Float", "Double"}, h \in (-MaxInt)..MaxInt}
  \cup {Variant("String", 0, NullString)}
  \cup {Variant("String", 0, Str(cs)) : cs \in StrSeqs}

\* QVariant::toString()
toString(v) ==
  CASE v.type = "Int" -> NumberInt(v.n)
    [] v.type \in {"Float", "Double"} -> NumberDouble(v.n)
    [] v.type = "String" -> v.s
    [] OTHER -> NullString

IsDigit(c) == c \in {"0", "7"}
DigitVal(c) == IF c = "7" THEN 7 ELSE 0

RECURSIVE DigitsValue(_)
DigitsValue(cs) ==
  IF cs = <<>> THEN 0
  ELSE 10 * DigitsValue(SubSeq(cs, 1, Len(cs) - 1)) + DigitVal(cs[Len(cs)])

\* QString::toInt(&ok): an optional sign and at least one digit
StringToInt(t) ==
  LET cs == t.chars
      neg == Len(cs) > 0 /\ cs[1] = "-"
      ds == IF neg THEN SubSeq(cs, 2, Len(cs)) ELSE cs
      good == Len(ds) > 0 /\ \A i \in 1..Len(ds) : IsDigit(ds[i])
  IN  IF good THEN [ok |-> TRUE, val |-> IF neg THEN -DigitsValue(ds) ELSE DigitsValue(ds)]
      ELSE [ok |-> FALSE, val |-> 0]

\* QVariant::toInt(&ok): a Float / Double is rounded (qRound: floor(v + 0.5))
toInt(v) ==
  CASE v.type = "Int" -> [ok |-> TRUE, val |-> v.n]
    [] v.type \in {"Float", "Double"} -> [ok |-> TRUE, val |-> (v.n + 1) \div 2]
    [] v.type = "String" -> StringToInt(v.s)
    [] OTHER -> [ok |-> FALSE, val |-> 0]

(* --------------------------- displayText ------------------------------- *)
\* Results of Utilities::PrettyTime, Utilities::PrettySize and
\* QDateTime::toString are kept as the call's name and its argument.
PrettyTime(seconds) == Str(<<"PrettyTime">> \o NumberInt(seconds).chars)
PrettySize(bytes) == Str(<<"PrettySize">> \o NumberInt(bytes).chars)
DateTimeString(time) == Str(<<"DateTime">> \o NumberInt(time).chars)

\* mutant: suppresses only negative numbers
PlaylistDelegateBase_displayText_ZeroShown(value, suffix) ==
  LET text ==
        CASE value.type = "Int" ->
               IF value.n >= 0 THEN NumberInt(value.n) ELSE NullString
          [] value.type \in {"Float", "Double"} ->
               IF value.n >= 0 THEN NumberDouble(value.n) ELSE NullString
          [] OTHER -> toString(value)
  IN  IF ~isNull(text) /\ ~isNull(suffix)
        THEN Concat(text, Concat(Str(<<" ">>), suffix))
        ELSE text

PlaylistDelegateBase_displayText(value, suffix) ==
  LET text ==
        CASE value.type = "Int" ->
               IF value.n > 0 THEN NumberInt(value.n) ELSE NullString
          [] value.type \in {"Float", "Double"} ->
               IF value.n > 0 THEN NumberDouble(value.n) ELSE NullString
          [] OTHER -> toString(value)
  IN  IF ~isNull(text) /\ ~isNull(suffix)
        THEN Concat(text, Concat(Str(<<" ">>), suffix))
        ELSE text

\* mutant: the sign of the duration is not tested
LengthItemDelegate_displayText_NoSignTest(value) ==
  LET c == toInt(value)
  IN  IF c.ok THEN PrettyTime(c.val) ELSE NullString

LengthItemDelegate_displayText(value) ==
  LET c == toInt(value)
  IN  IF c.ok /\ c.val > 0 THEN PrettyTime(c.val) ELSE NullString

\* mutant: the conversion's ok flag is ignored
SizeItemDelegate_displayText_IgnoreOk(value) ==
  PrettySize(toInt(value).val)

SizeItemDelegate_displayText(value) ==
  LET c == toInt(value)
  IN  IF c.ok THEN PrettySize(c.val) ELSE NullString

DateItemDelegate_displayText(value) ==
  LET c == toInt(value)
  IN  IF ~c.ok \/ c.val = -1 THEN NullString ELSE DateTimeString(c.val)

\* Song::FileType labels, by the enumerator's position
FileTypeLabels == <<"Unknown", "ASF", "FLAC", "MP4">>

FileTypeItemDelegate_displayText(value) ==
  LET c == toInt(value)
  IN  IF ~c.ok THEN tr("Unknown")
      ELSE IF c.val \in 0..(Len(FileTypeLabels) - 1) THEN tr(FileTypeLabels[c.val + 1])
      ELSE tr("Unknown")

DelegateClasses == {"Base", "Length", "Size", "Date", "FileType"}

\* the virtual call displayText(value, locale) on a delegate of class cls
displayText(cls, value, suffix) ==
  CASE cls = "Length" -> LengthItemDelegate_displayText(value)
    [] cls = "Size" -> SizeItemDelegate_displayText(value)
    [] cls = "Date" -> DateItemDelegate_displayText(value)
    [] cls = "FileType" -> FileTypeItemDelegate_displayText(value)
    [] OTHER -> PlaylistDelegateBase_displayText(value, suffix)

(* -------------------------------- QRect -------------------------------- *)
\* QRect keeps its two corners; width() is right - left + 1
QRect(l, t, r, b) == [left |-> l, top |-> t, right |-> r, bottom |-> b]
setLeft(rc, x) == [rc EXCEPT !.left = x]
setRight(rc, x) == [rc EXCEPT !.right = x]
setTop(rc, y) == [rc EXCEPT !.top = y]
setBottom(rc, y) == [rc EXCEPT !.bottom = y]
setWidth(rc, w) == [rc EXCEPT !.right = rc.left + w - 1]

\* the cell rectangles the view hands to paint
CellLefts == {0, 40}
CellWidths == {10, 120}
CellHeight == 20
OptionRects ==
  {QRect(l, 0, l + w - 1, CellHeight - 1) : l \in CellLefts, w \in CellWidths}

(* ------------------------------- columns ------------------------------- *)
Column_Title == "Title"
Column_Artist == "Artist"
Column_Album == "Album"
Column_AlbumArtist == "AlbumArtist"
Column_Length == "Length"
Columns == {Column_Title, Column_Artist, Column_Album, Column_AlbumArtist, Column_Length}
\* QHeaderView::logicalIndexAt returns -1 where the header has no section
NoColumn == "NoColumn"

(* ------------------------------- painter ------------------------------- *)
FreshPainter ==
  [opacity |-> OpacityScale, antialiasing |-> FALSE, pen |-> "default",
   brush |-> "default", font |-> "default"]

\* what one drawing call put on the screen
Drawn(what, rc, text, p) == [what |-> what, rect |-> rc, text |-> text, opacity |-> p.opacity]

\* QueuedItemDelegate::DrawBox; width -1 asks for the font-metrics width
\* of the text, text_width.  Returns the painter and the box drawn.
DrawBox(p, line_rect, text, width, text_width) ==
  LET w == IF width = -1 THEN text_width ELSE width
      r1 == setLeft(line_rect, line_rect.right - w - kQueueBoxBorder)
      r2 == setWidth(r1, w)
      r3 == setTop(r2, r2.top + kQueueBoxBorder)
      rc == setBottom(r3, r3.bottom - kQueueBoxBorder - 1)
      p2 == [p EXCEPT !.antialiasing = TRUE, !.pen = "white",
                      !.brush = "gradient", !.font = "smaller-bold"]
  IN  [painter |-> p2, box |-> Drawn("box", rc, text, p2)]

Min(a, b) == IF a < b THEN a ELSE b

\* mutant: the ramp is computed in integers, so the division truncates
QueueOpacity_IntDivision(queue_pos) ==
  LET steps == kQueueOpacitySteps - Min(kQueueOpacitySteps, queue_pos)
      ratio == (steps \div kQueueOpacitySteps) * OpacityScale
      scaled == (ratio * (OpacityScale - kQueueOpacityLowerBound)) \div OpacityScale
  IN  scaled + kQueueOpacityLowerBound

\* the opacity of the queue badge, in hundredths
QueueOpacity(queue_pos) ==
  LET steps == kQueueOpacitySteps - Min(kQueueOpacitySteps, queue_pos)
      ratio == (steps * OpacityScale) \div kQueueOpacitySteps
      scaled == (ratio * (OpacityScale - kQueueOpacityLowerBound)) \div OpacityScale
  IN  scaled + kQueueOpacityLowerBound

\* mutant: the badge is drawn in every column
DrawsQueueBadge_AnyColumn(indicator_column, column, queue_pos) ==
  queue_pos # -1

\* the two nested tests of paint and queue_indicator_size
DrawsQueueBadge(indicator_column, column, queue_pos) ==
  column = indicator_column /\ queue_pos # -1

\* QueuedItemDelegate::paint: the base class paints the item, then the badge
QueuedItemDelegate_paint(p, indicator_column, option, column, queue_pos) ==
  LET item == Drawn("item", option.rect, NullString, p)
  IN  IF DrawsQueueBadge(indicator_column, column, queue_pos)
        THEN LET p1 == [p EXCEPT !.opacity = QueueOpacity(queue_pos)]
                 d == DrawBox(p1, option.rect, NumberInt(queue_pos + 1), kQueueBoxLength, 0)
             IN  [painter |-> [d.painter EXCEPT !.opacity = OpacityScale],
                  drawn |-> <<item, d.box>>]
        ELSE [painter |-> p, drawn |-> <<item>>]

\* mutant: the size does not depend on the cell
queue_indicator_size_Always(indicator_column, column, queue_pos) ==
  kQueueBoxLength + kQueueBoxBorder * 2

queue_indicator_size(indicator_column, column, queue_pos) ==
  IF DrawsQueueBadge(indicator_column, column, queue_pos)
    THEN kQueueBoxLength + kQueueBoxBorder * 2
    ELSE 0

\* mutant: every cell of the playing row is shifted
Adjusted_AnyColumn(first_column, option, column, is_current) ==
  IF is_current
    THEN [option EXCEPT !.rect = setLeft(option.rect, option.rect.left + kCurrentIndent)]
    ELSE option

\* PlaylistDelegateBase::Adjusted; first_column is
\* view_->header()->logicalIndexAt(top_left)
Adjusted(first_column, option, column, is_current) ==
  IF first_column # column THEN option
  ELSE IF is_current
    THEN [option EXCEPT !.rect = setLeft(option.rect, option.rect.left + kCurrentIndent)]
    ELSE option

\* PlaylistDelegateBase::paint
\* (ic is indicator_column_, fc the header's first column)
PlaylistDelegateBase_paint(p, ic, fc, option, column, queue_pos, is_current, stop_after, text_width) ==
  LET q == QueuedItemDelegate_paint(p, ic,
             Adjusted(fc, option, column, is_current), column, queue_pos)
  IN  IF column = Column_Title /\ stop_after
        THEN LET rc == setRight(option.rect,
                         option.rect.right - queue_indicator_size(ic, column, queue_pos))
                 d == DrawBox(q.painter, rc, tr("stop"), -1, text_width)
             IN  [painter |-> d.painter, drawn |-> Append(q.drawn, d.box)]
        ELSE q

\* mutant: the minimum height is not enforced
PlaylistDelegateBase_sizeHint_NoMinimum(base) == base

\* PlaylistDelegateBase::sizeHint; base is QueuedItemDelegate::sizeHint
PlaylistDelegateBase_sizeHint(base) ==
  IF base.height < kMinHeight THEN [base EXCEPT !.height = kMinHeight] ELSE base

(* ------------------------------ helpEvent ------------------------------ *)
EventTypes == {"ToolTip", "QueryWhatsThis", "WhatsThis", "MouseMove"}

\* mutant: the tooltip shows the cell's raw text
PlaylistDelegateBase_helpEvent_Raw(cls, suffix, has_event, has_view, type, value) ==
  LET text == toString(value)
  IN  IF ~has_event \/ ~has_view THEN [ret |-> FALSE, shown |-> "nothing", text |-> NullString]
      ELSE IF isEmpty(text) THEN [ret |-> FALSE, shown |-> "nothing", text |-> NullString]
      ELSE CASE type = "ToolTip" -> [ret |-> TRUE, shown |-> "QToolTip", text |-> text]
             [] type = "QueryWhatsThis" -> [ret |-> TRUE, shown |-> "nothing", text |-> NullString]
             [] type = "WhatsThis" -> [ret |-> TRUE, shown |-> "QWhatsThis", text |-> text]
             [] OTHER -> [ret |-> FALSE, shown |-> "nothing", text |-> NullString]

\* PlaylistDelegateBase::helpEvent: what is shown, where, and the result
PlaylistDelegateBase_helpEvent(cls, suffix, has_event, has_view, type, value) ==
  LET text == displayText(cls, value, suffix)
  IN  IF ~has_event \/ ~has_view THEN [ret |-> FALSE, shown |-> "nothing", text |-> NullString]
      ELSE IF isEmpty(text) THEN [ret |-> FALSE, shown |-> "nothing", text |-> NullString]
      ELSE CASE type = "ToolTip" -> [ret |-> TRUE, shown |-> "QToolTip", text |-> text]
             [] type = "QueryWhatsThis" -> [ret |-> TRUE, shown |-> "nothing", text |-> NullString]
             [] type = "WhatsThis" -> [ret |-> TRUE, shown |-> "QWhatsThis", text |-> text]
             [] OTHER -> [ret |-> FALSE, shown |-> "nothing", text |-> NullString]

(* -------------------------- TagCompletionModel ------------------------- *)
ArtistNames == {"a1", "a2"}
AlbumNames == {"b1", "b2"}
\* LibraryBackend::Album
Albums == [artist : ArtistNames, album_name : AlbumNames]

SeqsUpTo(S, n) == UNION {[1..k -> S] : k \in 0..n}
NoDuplicates(q) == \A i, j \in 1..Len(q) : q[i] = q[j] => i = j

\* LibraryBackend::GetAllArtists(): the distinct artists
ArtistLists == {q \in SeqsUpTo(ArtistNames, MaxLibrary) : NoDuplicates(q)}
\* LibraryBackend::GetAllAlbums(): the distinct albums (artist and name)
AlbumLists == {q \in SeqsUpTo(Albums, MaxLibrary) : NoDuplicates(q)}

\* the string list the constructor leaves in the model
TagCompletionModel(artists, albums, column) ==
  CASE column = Column_Artist -> artists
    [] column = Column_Album -> [i \in 1..Len(albums) |-> albums[i].album_name]
    [] OTHER -> <<>>

(* ------------------------------- state --------------------------------- *)
VARIABLES
  suffix_,            \* PlaylistDelegateBase::suffix_
  indicator_column_,  \* QueuedItemDelegate::indicator_column_
  header_first,       \* view_->header()->logicalIndexAt(top_left)
  painter,            \* the QPainter the view paints its cells with
  op                  \* the delegate call the GUI thread is in: arguments and result

vars == <<suffix_, indicator_column_, header_first, painter, op>>

Suffixes == {NullString, Str(<<"kbps">>)}
IndicatorColumns == {Column_Title, Column_Length}
Options == [rect : OptionRects, font : {"font"}]
BaseSizes == [width : (-1)..MaxWidth, height : (-1)..MaxHeight]
QueuePositions == (-1)..MaxQueuePos
TextWidths == 1..MaxTextWidth

\* the GUI thread is in the event loop, outside every delegate call
Idle == [name |-> "idle"]

Init ==
  /\ suffix_ \in Suffixes
  /\ indicator_column_ \in IndicatorColumns
  /\ header_first = Column_Title
  /\ painter = FreshPainter
  /\ op = Idle

\* the user scrolls, moves or hides header sections
HeaderChanged ==
  /\ op = Idle
  /\ \E c \in Columns \cup {NoColumn} : c # header_first /\ header_first' = c
  /\ UNCHANGED <<suffix_, indicator_column_, painter, op>>

\* displayText(value, locale) on a delegate of class cls
DisplayText ==
  /\ op = Idle
  /\ \E cls \in DelegateClasses, value \in Variants :
    /\ op' = [name |-> "displayText", cls |-> cls, value |-> value,
              ret |-> displayText(cls, value, suffix_)]
    /\ UNCHANGED <<suffix_, indicator_column_, header_first, painter>>

SizeHint ==
  /\ op = Idle
  /\ \E base \in BaseSizes :
    /\ op' = [name |-> "sizeHint", base |-> base,
              ret |-> PlaylistDelegateBase_sizeHint(base)]
    /\ UNCHANGED <<suffix_, indicator_column_, header_first, painter>>

\* paint on a plain QueuedItemDelegate
QueuedPaint ==
  /\ op = Idle
  /\ \E option \in Options, column \in Columns, queue_pos \in QueuePositions :
    LET r == QueuedItemDelegate_paint(painter, indicator_column_, option, column, queue_pos)
    IN  /\ painter' = r.painter
        /\ op' = [name |-> "QueuedItemDelegate::paint", option |-> option,
                  column |-> column, queue_pos |-> queue_pos,
                  drawn |-> r.drawn]
        /\ UNCHANGED <<suffix_, indicator_column_, header_first>>

\* paint on a PlaylistDelegateBase
Paint ==
  /\ op = Idle
  /\ \E option \in Options, column \in Columns, queue_pos \in QueuePositions,
     is_current \in BOOLEAN, stop_after \in BOOLEAN, text_width \in TextWidths :
    LET r == PlaylistDelegateBase_paint(painter, indicator_column_, header_first, option,
               column, queue_pos, is_current, stop_after, text_width)
    IN  /\ painter' = r.painter
        /\ op' = [name |-> "PlaylistDelegateBase::paint", option |-> option,
                  column |-> column, queue_pos |-> queue_pos,
                  is_current |-> is_current, stop_after |-> stop_after,
                  first_column |-> header_first,
                  adjusted |-> Adjusted(header_first, option, column, is_current),
                  drawn |-> r.drawn]
        /\ UNCHANGED <<suffix_, indicator_column_, header_first>>

QueueIndicatorSize ==
  /\ op = Idle
  /\ \E column \in Columns, queue_pos \in QueuePositions :
    /\ op' = [name |-> "queue_indicator_size", column |-> column, queue_pos |-> queue_pos,
              ret |-> queue_indicator_size(indicator_column_, column, queue_pos)]
    /\ UNCHANGED <<suffix_, indicator_column_, header_first, painter>>

HelpEvent ==
  /\ op = Idle
  /\ \E cls \in DelegateClasses, has_event \in BOOLEAN, has_view \in BOOLEAN,
     type \in EventTypes, value \in Variants :
    LET r == PlaylistDelegateBase_helpEvent(cls, suffix_, has_event, has_view, type, value)
    IN  /\ op' = [name |-> "helpEvent", cls |-> cls, has_event |-> has_event,
                  has_view |-> has_view, type |-> type, value |-> value,
                  ret |-> r.ret, shown |-> r.shown, text |-> r.text]
        /\ UNCHANGED <<suffix_, indicator_column_, header_first, painter>>

\* TagCompletionItemDelegate::createEditor builds a TagCompleter, which
\* builds the TagCompletionModel from the backend
CreateEditor ==
  /\ op = Idle
  /\ \E artists \in ArtistLists, albums \in AlbumLists, column \in Columns :
    /\ op' = [name |-> "TagCompletionModel", column |-> column,
              artists |-> artists, albums |-> albums,
              stringList |-> TagCompletionModel(artists, albums, column)]
    /\ UNCHANGED <<suffix_, indicator_column_, header_first, painter>>

\* the call returns to the view, which takes the result
Return ==
  /\ op # Idle
  /\ op' = Idle
  /\ UNCHANGED <<suffix_, indicator_column_, header_first, painter>>

Next ==
  \/ HeaderChanged
  \/ DisplayText
  \/ SizeHint
  \/ QueuedPaint
  \/ Paint
  \/ QueueIndicatorSize
  \/ HelpEvent
  \/ CreateEditor
  \/ Return

Spec == Init /\ [][Next]_vars

(* ------------------------------ properties ----------------------------- *)
IsNumber(v) == v.type \in {"Int", "Float", "Double"}
NumberText(v) == IF v.type = "Int" THEN NumberInt(v.n) ELSE NumberDouble(v.n)
WithSuffix(t, suffix) == Str(t.chars \o <<" ">> \o suffix.chars)
BaseDisplayText == op.name = "displayText" /\ op.cls = "Base"

\* C1 as stated: a number <= 0 is blank, a number > 0 is the decimal number,
\* a space and the suffix; every other value is its string form followed by
\* a space and the suffix whenever a suffix is configured.
C1_AsStated ==
  BaseDisplayText =>
    /\ (IsNumber(op.value) /\ op.value.n <= 0) => op.ret = NullString
    /\ (IsNumber(op.value) /\ op.value.n > 0 /\ ~isNull(suffix_)) =>
         op.ret = WithSuffix(NumberText(op.value), suffix_)
    /\ (~IsNumber(op.value) /\ ~isNull(suffix_)) =>
         op.ret = WithSuffix(toString(op.value), suffix_)
    /\ (~IsNumber(op.value) /\ isNull(suffix_)) => op.ret = toString(op.value)

\* C1 amended: as C1, except that a value of another type whose string form
\* is null (an invalid variant, a null string) gives null text and no suffix;
\* a non-null string form, the empty string included, gets the suffix.
C1_DisplayText ==
  BaseDisplayText =>
    /\ (IsNumber(op.value) /\ op.value.n <= 0) => op.ret = NullString
    /\ (IsNumber(op.value) /\ op.value.n > 0 /\ ~isNull(suffix_)) =>
         op.ret = WithSuffix(NumberText(op.value), suffix_)
    /\ (IsNumber(op.value) /\ op.value.n > 0 /\ isNull(suffix_)) =>
         op.ret = NumberText(op.value)
    /\ (~IsNumber(op.value) /\ ~isNull(suffix_) /\ ~isNull(toString(op.value))) =>
         op.ret = WithSuffix(toString(op.value), suffix_)
    /\ (~IsNumber(op.value) /\ ~isNull(suffix_) /\ isNull(toString(op.value))) =>
         op.ret = NullString
    /\ (~IsNumber(op.value) /\ isNull(suffix_)) => op.ret = toString(op.value)

C1_Witness ==
  /\ BaseDisplayText
  /\ op.value.type = "Double" /\ op.value.n = 3
  /\ ~isNull(suffix_)
  /\ op.ret = Str(<<"1", ".", "5", " ", "kbps">>)

Malformed(v) == ~toInt(v).ok
Converters == {"Length", "Size", "Date", "FileType"}

\* C2 as stated: each of the four converters gives blank text for a value
\* that does not convert to an integer.
C2_AsStated ==
  (op.name = "displayText" /\ op.cls \in Converters /\ Malformed(op.value)) =>
    isEmpty(op.ret)

\* C2 amended: LengthItemDelegate, SizeItemDelegate and DateItemDelegate give
\* blank (null) text for a value that does not convert to an integer;
\* FileTypeItemDelegate gives the label "Unknown".
C2_Malformed ==
  (op.name = "displayText" /\ Malformed(op.value)) =>
    /\ op.cls \in {"Length", "Size", "Date"} => op.ret = NullString
    /\ op.cls = "FileType" => op.ret = tr("Unknown")

C2_Witness ==
  /\ op.name = "displayText" /\ op.cls = "Size"
  /\ op.value = Variant("String", 0, Str(<<"7", "x">>))
  /\ op.ret = NullString

IsPaint == op.name \in {"QueuedItemDelegate::paint", "PlaylistDelegateBase::paint"}
QueueBoxes == {i \in 1..Len(op.drawn) :
                 op.drawn[i].what = "box" /\ op.drawn[i].text # tr("stop")}
StopBoxes == {i \in 1..Len(op.drawn) :
                op.drawn[i].what = "box" /\ op.drawn[i].text = tr("stop")}

C4_SizeHint ==
  op.name = "sizeHint" =>
    /\ op.ret.height = (IF op.base.height < kMinHeight THEN kMinHeight ELSE op.base.height)
    /\ op.ret.height >= kMinHeight
    /\ op.ret.width = op.base.width

C4_Witness ==
  op.name = "sizeHint" /\ op.base.height = kMinHeight - 1 /\ op.ret.height = kMinHeight

\* C5: Adjusted moves the rectangle's left edge right by 20 exactly when the
\* cell's column is the header's first column and the row is the current
\* one; otherwise it returns the option as given; nothing but the left edge
\* ever changes.
C5_Adjusted ==
  op.name = "PlaylistDelegateBase::paint" =>
    LET shifted == op.first_column = op.column /\ op.is_current
    IN  /\ shifted => /\ op.adjusted.rect.left = op.option.rect.left + kCurrentIndent
                      /\ op.adjusted.rect.top = op.option.rect.top
                      /\ op.adjusted.rect.right = op.option.rect.right
                      /\ op.adjusted.rect.bottom = op.option.rect.bottom
                      /\ op.adjusted.font = op.option.font
        /\ ~shifted => op.adjusted = op.option
        /\ op.drawn[1].what = "item" /\ op.drawn[1].rect = op.adjusted.rect

C5_Witness ==
  /\ op.name = "PlaylistDelegateBase::paint"
  /\ op.first_column = op.column /\ op.is_current
  /\ op.adjusted.rect.left = op.option.rect.left + kCurrentIndent

\* C6: helpEvent shows the delegate's displayText of the cell value: a
\* ToolTip or WhatsThis event with non-empty text shows that text and returns
\* true, QueryWhatsThis with non-empty text returns true and shows nothing,
\* a missing event or view or an empty text returns false and shows nothing,
\* and so does every other event type.
C6_HelpEvent ==
  op.name = "helpEvent" =>
    LET text == displayText(op.cls, op.value, suffix_)
        live == op.has_event /\ op.has_view /\ ~isEmpty(text)
    IN  /\ ~live => ~op.ret /\ op.shown = "nothing"
        /\ (live /\ op.type = "ToolTip") =>
             op.ret /\ op.shown = "QToolTip" /\ op.text = text
        /\ (live /\ op.type = "WhatsThis") =>
             op.ret /\ op.shown = "QWhatsThis" /\ op.text = text
        /\ (live /\ op.type = "QueryWhatsThis") => op.ret /\ op.shown = "nothing"
        /\ (live /\ op.type \notin {"ToolTip", "WhatsThis", "QueryWhatsThis"}) =>
             ~op.ret /\ op.shown = "nothing"

C6_Witness ==
  /\ op.name = "helpEvent" /\ op.type = "ToolTip" /\ op.ret
  /\ op.shown = "QToolTip"
  /\ op.text # toString(op.value)

Range(q) == {q[i] : i \in 1..Len(q)}

\* C7: the string list is the backend's artist list for the Artist column,
\* the album names of the backend's album list with no name twice for the
\* Album column, and empty for every other column.
C7_StringList ==
  op.name = "TagCompletionModel" =>
    /\ op.column = Column_Artist => op.stringList = op.artists
    /\ op.column = Column_Album =>
         /\ Range(op.stringList) = {a.album_name : a \in Range(op.albums)}
         /\ NoDuplicates(op.stringList)
    /\ op.column \notin {Column_Artist, Column_Album} => op.stringList = <<>>

\* C8: the badge's opacity is 0.4 + 0.6 * (10 - min(10, pos)) / 10, within
\* [0.4, 1.0], 1.0 at position 0, 0.4 from position 10 on, not increasing
\* with the position, and the painter is back at 1.0 after the badge.
C8_Opacity ==
  /\ IsPaint =>
       \A i \in QueueBoxes :
         LET o == op.drawn[i].opacity
             pos == op.queue_pos
         \* in hundredths: 0.4 is 40, 0.6 is 60, 1.0 is 100
         IN  /\ 10 * o = 400 + 60 * (10 - Min(10, pos))
             /\ o >= 40 /\ o <= 100
             /\ pos = 0 => o = 100
             /\ pos >= 10 => o = 40
             /\ painter.opacity = OpacityScale
  /\ \A a, b \in 0..MaxQueuePos : a <= b => QueueOpacity(b) <= QueueOpacity(a)

C8_Witness ==
  /\ IsPaint /\ op.queue_pos = 5
  /\ \E i \in QueueBoxes : op.drawn[i].opacity = 70
  /\ painter.opacity = OpacityScale

\* C9: the stop badge is drawn exactly for a Title cell with the stop-after
\* flag, after the queue badge and at opacity 1.0; queue_indicator_size is
\* 32 exactly where paint draws the queue badge and 0 elsewhere; the stop
\* badge ends left of where the queue badge begins.
C9_StopBadge ==
  /\ op.name = "PlaylistDelegateBase::paint" =>
       /\ (StopBoxes # {}) <=> (op.column = Column_Title /\ op.stop_after)
       /\ \A s \in StopBoxes :
            /\ s = Len(op.drawn)
            /\ op.drawn[s].opacity = OpacityScale
            /\ op.drawn[s].rect.right =
                 op.option.rect.right - 2 * kQueueBoxBorder
                   - (IF QueueBoxes # {} THEN kQueueBoxLength + 2 * kQueueBoxBorder ELSE 0)
            /\ \A q \in QueueBoxes :
                 q < s /\ op.drawn[s].rect.right < op.drawn[q].rect.left
  /\ op.name = "queue_indicator_size" =>
       op.ret = (IF op.column = indicator_column_ /\ op.queue_pos >= 0
                   THEN kQueueBoxLength + 2 * kQueueBoxBorder ELSE 0)

C9_Witness ==
  /\ op.name = "PlaylistDelegateBase::paint"
  /\ StopBoxes # {} /\ QueueBoxes # {}
  /\ \A s \in StopBoxes, q \in QueueBoxes :
       op.drawn[s].rect.right < op.drawn[q].rect.left

\* C10: LengthItemDelegate::displayText is the pretty-printed duration when
\* the value converts to a number of seconds above zero, and blank for
\* zero, a negative number and a value that does not convert.
C10_Length ==
  (op.name = "displayText" /\ op.cls = "Length") =>
    LET c == toInt(op.value)
    IN  /\ (c.ok /\ c.val > 0) => op.ret = PrettyTime(c.val) /\ ~isEmpty(op.ret)
        /\ ~(c.ok /\ c.val > 0) => op.ret = NullString

C10_Witness ==
  /\ op.name = "displayText" /\ op.cls = "Length"
  /\ op.value = Variant("String", 0, Str(<<"7", "7">>))
  /\ op.ret = PrettyTime(77)

====
